---- MODULE Spec2Model ----
(***************************************************************************)
(* A model of the Transformer notebook                                     *)
(* (src/.ipynb_checkpoints/Transformer-checkpoint.ipynb): the constructor  *)
(* and forward pass of MultiHeadAttentionBlock, its static attention       *)
(* helper, ResidualConnection with LayerNormalization, and                 *)
(* PositionalEncoding.                                                     *)
(*                                                                         *)
(* A tensor is a handle [sid, shape, strides] onto a storage of the heap,  *)
(* as in PyTorch: view and transpose return handles that share the         *)
(* storage, contiguous() copies only when the layout requires it, and an   *)
(* in-place operation writes the storage of its receiver.                  *)
(*                                                                         *)
(* Every statement of the notebook is one step.  A statement that Python   *)
(* cannot evaluate (an unbound name, an attribute that does not exist, a   *)
(* failed assert, a shape mismatch) raises: the step sets exc and the call *)
(* ends there.  Line numbers are those of the notebook file.               *)
(***************************************************************************)
EXTENDS Integers, Sequences, FiniteSets, TLC

VARIABLES
    pc,       \* the statement about to run ("idle": no call in progress)
    heap,     \* storages: heap[sid] is the flat data of storage sid
    globals,  \* the kernel's global namespace: the names bound besides the classes
    mha,      \* the MultiHeadAttentionBlock under construction or constructed
    rc,       \* the ResidualConnection constructed
    frame,    \* the locals of the call in progress
    exc       \* the exception the last call raised, or "none"

vars == <<pc, heap, globals, mha, rc, frame, exc>>

\* ------------------------------------------------------------------ bounds

MaxBatch == 1
MaxSeq == 2
MaxDModel == 4
MaxHeads == 2
MaxVal == 1
MaxDk == 2

\* ------------------------------------------------------- integer helpers

RECURSIVE Prod(_)
Prod(s) == IF s = <<>> THEN 1 ELSE Head(s) * Prod(Tail(s))

RECURSIVE SumSeq(_)
SumSeq(s) == IF s = <<>> THEN 0 ELSE Head(s) + SumSeq(Tail(s))

\* Python's a % b and a // b for b # 0: the quotient is floored, the remainder
\* takes the sign of b.
PyFloorDiv(a, b) == a \div b
PyMod(a, b) == a - b * (a \div b)

\* ------------------------------------------------------- tensors (torch)

NoObject == [cls |-> "None"]

\* The strides of a freshly allocated (row-major) tensor of this shape.
ContigStrides(shape) ==
    [i \in 1..Len(shape) |-> Prod(SubSeq(shape, i + 1, Len(shape)))]

\* Axes and indices count from 0 in Python and tuples from 1 here: Python's
\* t.shape[i] is t.shape[i + 1], and an index is the tuple of its per-axis
\* positions, each from 0.
\* The k-th index (0-based) of a shape in row-major order.
Unravel(k, shape) ==
    LET cs == ContigStrides(shape)
    IN [i \in 1..Len(shape) |-> (k \div cs[i]) % shape[i]]

Indices(shape) == {Unravel(k, shape) : k \in 0..(Prod(shape) - 1)}

\* The element of tensor t at index idx (0-based per axis).
At(h, t, idx) ==
    h[t.sid][SumSeq([i \in 1..Len(idx) |-> idx[i] * t.strides[i]]) + 1]

\* The elements of t in logical (row-major) order.
Flat(h, t) ==
    [k \in 1..Prod(t.shape) |-> At(h, t, Unravel(k - 1, t.shape))]

\* The id a new storage gets: the smallest one not in use.
FreshSid(h) ==
    CHOOSE s \in 1..(Cardinality(DOMAIN h) + 1) :
        /\ s \notin DOMAIN h
        /\ \A r \in 1..(s - 1) : r \in DOMAIN h

\* A new storage holding data, and the tensor of this shape onto it.
Alloc(h, shape, data) ==
    [heap |-> h @@ (FreshSid(h) :> data),
     t |-> [sid |-> FreshSid(h), shape |-> shape, strides |-> ContigStrides(shape)]]

\* Tensor.is_contiguous(): the strides are the row-major ones, axes of size 1
\* not counted.
is_contiguous(t) ==
    LET cs == ContigStrides(t.shape)
    IN \A i \in 1..Len(t.shape) : t.shape[i] = 1 \/ t.strides[i] = cs[i]

\* Tensor.transpose(d0, d1), axes counted from 0 as in Python: a handle onto
\* the same storage with the two axes' sizes and strides exchanged.
transpose(t, d0, d1) ==
    LET sw(s) == [i \in 1..Len(s) |->
                    IF i = d0 + 1 THEN s[d1 + 1]
                    ELSE IF i = d1 + 1 THEN s[d0 + 1] ELSE s[i]]
    IN [sid |-> t.sid, shape |-> sw(t.shape), strides |-> sw(t.strides)]

\* Tensor.contiguous(): the tensor itself when it is contiguous, otherwise a
\* copy in logical order on a new storage.
contiguous(h, t) ==
    IF is_contiguous(t) THEN [heap |-> h, t |-> t]
    ELSE Alloc(h, t.shape, Flat(h, t))

\* The size an argument list of view stands for: a -1 is inferred from the
\* number of elements.
ViewShape(t, sizes) ==
    LET known == Prod([i \in 1..Len(sizes) |-> IF sizes[i] = -1 THEN 1 ELSE sizes[i]])
    IN [i \in 1..Len(sizes) |->
          IF sizes[i] = -1 THEN Prod(t.shape) \div known ELSE sizes[i]]

\* Whether Tensor.view(*sizes) succeeds.  view is applied here to contiguous
\* tensors only; it needs the same number of elements.
ViewOk(t, sizes) ==
    /\ is_contiguous(t)
    /\ \A i \in 1..Len(sizes) : sizes[i] >= 0 \/ sizes[i] = -1
    /\ Cardinality({i \in 1..Len(sizes) : sizes[i] = -1}) <= 1
    /\ LET known == Prod([i \in 1..Len(sizes) |-> IF sizes[i] = -1 THEN 1 ELSE sizes[i]])
       IN IF \E i \in 1..Len(sizes) : sizes[i] = -1
          THEN known > 0 /\ Prod(t.shape) % known = 0
          ELSE known = Prod(t.shape)

\* Tensor.view(*sizes): a handle of the new shape onto the same storage.
view(t, sizes) ==
    [sid |-> t.sid, shape |-> ViewShape(t, sizes),
     strides |-> ContigStrides(ViewShape(t, sizes))]

\* ------------------------------------------ head split and recombination

\* Lines 249-253: X.view(X.shape[0], X.shape[1], self.h, self.d_k).transpose(1, 2)
\* (batch, seq_len, d_model) -> (batch, seq_len, h, d_k) -> (batch, h, seq_len, d_k)
SplitHeads(t, h, d_k) ==
    transpose(view(t, <<t.shape[1], t.shape[2], h, d_k>>), 1, 2)

\* Line 256 without its transpose: the heads are merged in (h, seq_len) order.
CombineHeadsNoTranspose(hp, x, h, d_k) ==
    LET c == contiguous(hp, x)
    IN [heap |-> c.heap, t |-> view(c.t, <<x.shape[1], -1, h * d_k>>)]

\* Line 256: x.transpose(1, 2).contiguous().view(x.shape[0], -1, self.h * self.d_k)
\* (batch, h, seq_len, d_k) -> (batch, seq_len, h, d_k) -> (batch, seq_len, d_model)
CombineHeads(hp, x, h, d_k) ==
    LET c == contiguous(hp, transpose(x, 1, 2))
    IN [heap |-> c.heap, t |-> view(c.t, <<x.shape[1], -1, h * d_k>>)]

\* ------------------------------------------------------ calls and raises

NoFrame == [fn |-> "none"]

\* Python's None.
None == NoObject

\* A statement raises: the call ends with the exception, its frame kept for
\* inspection until the caller unwinds it.
Raise(e) ==
    /\ pc' = "raised"
    /\ exc' = e
    /\ UNCHANGED <<heap, globals, mha, rc, frame>>

\* The storages still referenced once no call is in progress: those of the
\* globals and of the constructed modules.
Linears == {"w_q", "w_k", "w_v", "w_o"}

Roots(g, m, r) ==
    (IF g.mask.bound /\ g.mask.val # None THEN {g.mask.val.sid} ELSE {})
    \cup (IF m = NoObject THEN {}
          ELSE UNION {{m[a].weight.sid, m[a].bias.sid} : a \in Linears})
    \cup (IF r = NoObject THEN {}
          ELSE {r.norm.alpha.sid, r.norm.bias.sid})

Collect(h, g, m, r) == [s \in (DOMAIN h) \cap Roots(g, m, r) |-> h[s]]

\* The caller catches the exception (or the notebook cell ends with it): the
\* frame and what only it referenced are gone.
Unwind ==
    /\ pc = "raised"
    /\ pc' = "idle"
    /\ frame' = NoFrame
    /\ heap' = Collect(heap, globals, mha, rc)
    /\ UNCHANGED <<globals, mha, rc, exc>>

\* A call returns to the notebook cell that made it.
ReturnToCell ==
    /\ pc = "returned"
    /\ pc' = "idle"
    /\ frame' = NoFrame
    /\ heap' = Collect(heap, globals, mha, rc)
    /\ UNCHANGED <<globals, mha, rc, exc>>

\* ---------------------------------- MultiHeadAttentionBlock.__init__ (208)

\* The dropout rates a caller passes, in percent; both are valid for
\* nn.Dropout, which accepts 0 <= p <= 1.
DropoutRates == {0, 50}

\* nn.Linear(n, n)'s parameters as its initialiser draws them: weight of shape
\* (n, n), bias of shape (n).  Two draws are modelled: the identity with a
\* zero bias (kind 0), and the reversal with a bias of ones (kind 1); w_q and
\* w_v get the first, w_k and w_o the second.
LinearWeight(kind, n) ==
    [k \in 1..(n * n) |->
        LET r == (k - 1) \div n
            c == (k - 1) % n
        IN IF kind = 0 THEN (IF r = c THEN 1 ELSE 0)
           ELSE (IF r + c = n - 1 THEN 1 ELSE 0)]

LinearBias(kind, n) == [k \in 1..n |-> IF kind = 0 THEN 0 ELSE 1]

\* nn.Linear(n, n): the module and the heap holding its parameters.
NewLinear(h, kind, n) ==
    LET w == Alloc(h, <<n, n>>, LinearWeight(kind, n))
        b == Alloc(w.heap, <<n>>, LinearBias(kind, n))
    IN [heap |-> b.heap,
        m |-> [cls |-> "Linear", weight |-> w.t, bias |-> b.t]]

\* Line 212 with assertions stripped (python -O): the check is gone.
AssertStripped(d_model, h) == TRUE

\* Line 212: the condition of `assert d_model % h == 0` (h # 0).
AssertDivisible(d_model, h) == PyMod(d_model, h) = 0

\* MultiHeadAttentionBlock(d_model, h, dropout) is called from a cell;
\* line 209: super().__init__().
MHA_New(d_model, h, dropout) ==
    /\ pc = "idle"
    /\ mha = NoObject
    /\ rc = NoObject
    /\ pc' = "mha_210"
    /\ frame' = [fn |-> "MultiHeadAttentionBlock.__init__",
                 self |-> [cls |-> "MultiHeadAttentionBlock"],
                 d_model |-> d_model, h |-> h, dropout |-> dropout]
    /\ exc' = "none"
    /\ UNCHANGED <<heap, globals, mha, rc>>

\* Line 210: self.d_model = d_model
MHA_210 ==
    /\ pc = "mha_210"
    /\ frame' = [frame EXCEPT !.self = @ @@ [d_model |-> frame.d_model]]
    /\ pc' = "mha_211"
    /\ UNCHANGED <<heap, globals, mha, rc, exc>>

\* Line 211: self.h = h
MHA_211 ==
    /\ pc = "mha_211"
    /\ frame' = [frame EXCEPT !.self = @ @@ [h |-> frame.h]]
    /\ pc' = "mha_212"
    /\ UNCHANGED <<heap, globals, mha, rc, exc>>

\* Line 212: assert d_model % h == 0, "d_model is not divisible by h"
\* d_model % 0 raises ZeroDivisionError before the comparison.
MHA_212 ==
    /\ pc = "mha_212"
    /\ \/ /\ frame.h = 0
          /\ Raise("ZeroDivisionError")
       \/ /\ frame.h # 0
          /\ ~AssertDivisible(frame.d_model, frame.h)
          /\ Raise("AssertionError")
       \/ /\ frame.h # 0
          /\ AssertDivisible(frame.d_model, frame.h)
          /\ pc' = "mha_214"
          /\ UNCHANGED <<heap, globals, mha, rc, frame, exc>>

\* Line 214: self.d_k = d_model // h
MHA_214 ==
    /\ pc = "mha_214"
    /\ frame' = [frame EXCEPT
                   !.self = @ @@ [d_k |-> PyFloorDiv(frame.d_model, frame.h)]]
    /\ pc' = "mha_216"
    /\ UNCHANGED <<heap, globals, mha, rc, exc>>

\* Lines 216-220: self.<attr> = nn.Linear(d_model, d_model).  torch cannot
\* allocate a parameter with a negative dimension (RuntimeError); a dimension
\* of 0 gives empty parameters.
MHA_Linear(at, attr, kind, next) ==
    /\ pc = at
    /\ \/ /\ frame.d_model < 0
          /\ Raise("RuntimeError")
       \/ /\ frame.d_model >= 0
          /\ LET l == NewLinear(heap, kind, frame.d_model)
             IN /\ heap' = l.heap
                /\ frame' = [frame EXCEPT !.self = @ @@ (attr :> l.m)]
          /\ pc' = next
          /\ UNCHANGED <<globals, mha, rc, exc>>

\* Line 216: self.w_q = nn.Linear(d_model, d_model)
MHA_216 == MHA_Linear("mha_216", "w_q", 0, "mha_217")
\* Line 217: self.w_k = nn.Linear(d_model, d_model)
MHA_217 == MHA_Linear("mha_217", "w_k", 1, "mha_218")
\* Line 218: self.w_v = nn.Linear(d_model, d_model)
MHA_218 == MHA_Linear("mha_218", "w_v", 0, "mha_220")
\* Line 220: self.w_o = nn.Linear(d_model, d_model)
MHA_220 == MHA_Linear("mha_220", "w_o", 1, "mha_221")

\* Line 221: self.dropout = nn.Dropout(dropout); __init__ returns and the
\* cell holds the new module.
MHA_221 ==
    /\ pc = "mha_221"
    /\ mha' = frame.self @@ [dropout |-> [cls |-> "Dropout", p |-> frame.dropout]]
    /\ frame' = NoFrame
    /\ pc' = "idle"
    /\ UNCHANGED <<heap, globals, rc, exc>>

\* A cell drops its reference to the module (del, or rebinding the name).
MHA_Del ==
    /\ pc = "idle"
    /\ mha # NoObject
    /\ mha' = NoObject
    /\ heap' = Collect(heap, globals, NoObject, rc)
    /\ UNCHANGED <<pc, globals, rc, frame, exc>>

MHA_Init ==
    \/ \E d_model \in (-MaxDModel)..MaxDModel, h \in (-MaxHeads)..MaxHeads,
          dropout \in DropoutRates :
            MHA_New(d_model, h, dropout)
    \/ MHA_210 \/ MHA_211 \/ MHA_212 \/ MHA_214
    \/ MHA_216 \/ MHA_217 \/ MHA_218 \/ MHA_220 \/ MHA_221
    \/ MHA_Del

\* ----------------------------- the head split and recombination, applied

\* A tensor of this shape with pairwise distinct elements c, c + 1, ...
Iota(shape, c) == [k \in 1..Prod(shape) |-> c + k - 1]

\* The reshaping of forward applied to a tensor t of shape
\* (batch, seq_len, d_model) for a module with positive d_model and h.
Heads_Call(batch, seq_len, c) ==
    /\ pc = "idle"
    /\ mha # NoObject
    /\ mha.d_model > 0
    /\ mha.h > 0
    /\ LET a == Alloc(heap, <<batch, seq_len, mha.d_model>>,
                      Iota(<<batch, seq_len, mha.d_model>>, c))
       IN /\ heap' = a.heap
          /\ frame' = [fn |-> "heads", self |-> mha, t |-> a.t]
    /\ pc' = "heads_split"
    /\ exc' = "none"
    /\ UNCHANGED <<globals, mha, rc>>

\* The split of lines 249-253.
Heads_Split ==
    /\ pc = "heads_split"
    /\ frame' = frame @@ [x |-> SplitHeads(frame.t, frame.self.h, frame.self.d_k)]
    /\ pc' = "heads_combine"
    /\ UNCHANGED <<heap, globals, mha, rc, exc>>

\* The per-head tensor line 256 receives in forward is an output of attention,
\* freshly computed and laid out row-major in (batch, h, seq_len, d_k); the
\* split tensor is brought to that layout (a copy when the split is not
\* contiguous).  Without this step line 256 undoes the split on the handle.
Heads_Materialise ==
    /\ pc = "heads_combine"
    /\ ~is_contiguous(frame.x)
    /\ LET c == contiguous(heap, frame.x)
       IN /\ heap' = c.heap
          /\ frame' = [frame EXCEPT !.x = c.t]
    /\ UNCHANGED <<pc, globals, mha, rc, exc>>

\* The recombination of line 256.
Heads_Combine ==
    /\ pc = "heads_combine"
    /\ LET r == CombineHeads(heap, frame.x, frame.self.h, frame.self.d_k)
       IN /\ heap' = r.heap
          /\ frame' = frame @@ [ret |-> r.t]
    /\ pc' = "returned"
    /\ UNCHANGED <<globals, mha, rc, exc>>

Heads ==
    \/ \E batch \in 1..MaxBatch, seq_len \in 1..MaxSeq, c \in 0..MaxVal :
          Heads_Call(batch, seq_len, c)
    \/ Heads_Split
    \/ Heads_Materialise
    \/ Heads_Combine

\* ------------------------------------------------ nn.Linear and matmul

\* A copy of index idx with its last position set to i.
WithLast(idx, i) == [idx EXCEPT ![Len(idx)] = i]

\* The elements of nn.Linear's output for input x of shape (..., n):
\* y[..., o] = sum_i x[..., i] * weight[o, i] + bias[o].
LinearData(h, lin, x) ==
    [k \in 1..Prod(x.shape) |->
        LET idx == Unravel(k - 1, x.shape)
            o == idx[Len(idx)]
            n == x.shape[Len(x.shape)]
        IN SumSeq([i \in 1..n |->
                     At(h, x, WithLast(idx, i - 1)) * At(h, lin.weight, <<o, i - 1>>)])
           + At(h, lin.bias, <<o>>)]

\* A Linear that writes its output over its input's storage.
LinearForwardInPlace(h, lin, x) ==
    [heap |-> [h EXCEPT ![x.sid] = LinearData(h, lin, x)],
     t |-> [sid |-> x.sid, shape |-> x.shape, strides |-> ContigStrides(x.shape)]]

\* Lines 242-244, 259: self.w(x), nn.Linear's forward: a new tensor.
LinearForward(h, lin, x) == Alloc(h, x.shape, LinearData(h, lin, x))

\* a @ b for 4-axis tensors (batched over the first two axes):
\* out[b, h, i, j] = f(row i of a, column j of b); elem builds the element
\* from the two vectors.
MatMulShape(a, b) == <<a.shape[1], a.shape[2], a.shape[3], b.shape[4]>>

RowOf(h, a, idx) ==
    [c \in 1..a.shape[4] |-> At(h, a, <<idx[1], idx[2], idx[3], c - 1>>)]

ColOf(h, b, idx) ==
    [c \in 1..b.shape[3] |-> At(h, b, <<idx[1], idx[2], c - 1, idx[4]>>)]

\* ------------------------------- MultiHeadAttentionBlock.forward (240)

\* A 0/1 mask of shape (rows, cols) that hides the positions after the
\* query's own (1 on and below the diagonal).
CausalMask(rows, cols) ==
    [k \in 1..(rows * cols) |->
        IF (k - 1) % cols <= (k - 1) \div cols THEN 1 ELSE 0]

\* block.forward(q, k, v, mask) is called from a cell on the constructed
\* module, with q of shape (batch, seq_len_q, d_model) and k, v of shape
\* (batch, seq_len_k, d_model); self-attention passes one tensor three
\* times.  mask is None or a tensor of shape (seq_len_q, seq_len_k).
Fwd_Call(batch, sq, sk, same, masked) ==
    /\ pc = "idle"
    /\ mha # NoObject
    /\ same => sq = sk
    /\ LET d == mha.d_model
           q == Alloc(heap, <<batch, sq, d>>, Iota(<<batch, sq, d>>, 1))
           k == IF same THEN q
                ELSE Alloc(q.heap, <<batch, sk, d>>, Iota(<<batch, sk, d>>, 2))
           v == IF same THEN q
                ELSE Alloc(k.heap, <<batch, sk, d>>, Iota(<<batch, sk, d>>, 3))
           m == IF masked THEN Alloc(v.heap, <<sq, sk>>, CausalMask(sq, sk))
                ELSE [heap |-> v.heap, t |-> None]
       IN /\ heap' = m.heap
          /\ frame' = [fn |-> "MultiHeadAttentionBlock.forward", self |-> mha,
                       q |-> q.t, k |-> k.t, v |-> v.t, mask |-> m.t,
                       heap0 |-> m.heap]
    /\ pc' = "fwd_242"
    /\ exc' = "none"
    /\ UNCHANGED <<globals, mha, rc>>

\* Lines 242-244: <local> = self.<w>(<input>)
Fwd_Project(at, local, w, input, next) ==
    /\ pc = at
    /\ LET y == LinearForward(heap, frame.self[w], frame[input])
       IN /\ heap' = y.heap
          /\ frame' = frame @@ (local :> y.t)
    /\ pc' = next
    /\ UNCHANGED <<globals, mha, rc, exc>>

\* Line 242: query = self.w_q(q)
Fwd_242 == Fwd_Project("fwd_242", "query", "w_q", "q", "fwd_243")
\* Line 243: key = self.w_k(k)
Fwd_243 == Fwd_Project("fwd_243", "key", "w_k", "k", "fwd_244")
\* Line 244: value = self.w_v(v)
Fwd_244 == Fwd_Project("fwd_244", "value", "w_v", "v", "fwd_249")

\* Line 249:
\*   query = query.view(query.shape[0], query.shape[1], self.h, self,d_k).transpose(1, 2)
\* The argument list reads "self.h, self, d_k": the last argument is the name
\* d_k, which is no local of forward and is looked up in the globals
\* (NameError when unbound); when a cell has bound it, view is called with
\* the module itself among its sizes and raises TypeError.  The statement
\* raises either way, so lines 252-259 never run.
Fwd_249 ==
    /\ pc = "fwd_249"
    /\ Raise(IF globals.d_k.bound THEN "TypeError" ELSE "NameError")

Forward ==
    \/ \E batch \in 1..MaxBatch, sq \in 1..MaxSeq, sk \in 1..MaxSeq,
          same \in BOOLEAN, masked \in BOOLEAN :
            Fwd_Call(batch, sq, sk, same, masked)
    \/ Fwd_242 \/ Fwd_243 \/ Fwd_244 \/ Fwd_249


\* ------------------------------- MultiHeadAttentionBlock.attention (223)

\* Line 233: the value masked scores are overwritten with, -1e9.
MaskFillValue == -1000000000

\* The element of a float tensor is held as the expression that defines it:
\*   <<"int", n>>              the integer n
\*   <<"div_sqrt", n, d>>      n / sqrt(d)
\*   <<"const", v>>            the constant v
\*   <<"softmax", j, row>>     exp(row[j]) / sum_i exp(row[i])
\*   <<"dropped">>             0, an element dropout zeroed
\*   <<"kept", x, p>>          x / (1 - p/100), an element dropout kept
\*   <<"dot", row, col>>       sum_i row[i] * col[i]

\* Line 228: (query @ key.transpose(-2, -1)) / math.sqrt(d_k), a new tensor.
ScoresData(h, query, key, d_k) ==
    LET kt == transpose(key, 2, 3)
        shape == MatMulShape(query, kt)
    IN [k \in 1..Prod(shape) |->
          LET idx == Unravel(k - 1, shape)
              row == RowOf(h, query, idx)
              col == ColOf(h, kt, idx)
          IN <<"div_sqrt",
               SumSeq([c \in 1..Len(row) |-> row[c] * col[c]]), d_k>>]

\* Whether a tensor of shape ms broadcasts to a tensor of shape ts with at
\* least as many axes: aligned from the last axis, each size is equal or 1.
BroadcastsTo(ms, ts) ==
    /\ Len(ms) <= Len(ts)
    /\ \A i \in 1..Len(ms) :
          LET m == ms[Len(ms) + 1 - i]
              t == ts[Len(ts) + 1 - i]
          IN m = t \/ m = 1

\* The element of m that index idx of the larger shape reads under
\* broadcasting.
BroadcastAt(h, m, idx) ==
    At(h, m, [i \in 1..Len(m.shape) |->
                IF m.shape[i] = 1 THEN 0
                ELSE idx[Len(idx) - Len(m.shape) + i]])

\* masked_fill_ with receiver and mask exchanged: the mask's storage is
\* written where the mask is 0.
masked_fill_into_mask(h, t, m, v) ==
    [h EXCEPT ![m.sid] = [k \in 1..Len(h[m.sid]) |->
                            IF h[m.sid][k] = 0 THEN v ELSE h[m.sid][k]]]

\* Line 233: t.masked_fill_(m == 0, v): in place, the storage of t is written
\* wherever the (broadcast) mask is 0.  t is a freshly allocated contiguous
\* tensor, so its storage is in logical order.
masked_fill_(h, t, m, v) ==
    [h EXCEPT ![t.sid] = [k \in 1..Prod(t.shape) |->
                            IF BroadcastAt(h, m, Unravel(k - 1, t.shape)) = 0
                            THEN <<"const", v>>
                            ELSE h[t.sid][k]]]

\* Line 234: t.softmax(dim = -1): each element with the row (last axis) it
\* is normalised over.
SoftmaxData(h, t) ==
    [k \in 1..Prod(t.shape) |->
        LET idx == Unravel(k - 1, t.shape)
            n == t.shape[Len(t.shape)]
        IN <<"softmax", idx[Len(idx)] + 1,
             [j \in 1..n |-> At(h, t, WithLast(idx, j - 1))]>>]

\* nn.Dropout in training mode (no cell calls eval()): with p = 0 every
\* element is kept as it is; otherwise the generator's draw decides which
\* elements are zeroed, and the kept ones are scaled by 1 / (1 - p).
\* Three draws are modelled: keep all, drop all, drop every second element.
DropoutDraws == {"keep", "drop", "alternate"}

DropoutData(h, t, p, draw) ==
    [k \in 1..Prod(t.shape) |->
        LET x == At(h, t, Unravel(k - 1, t.shape))
        IN IF p = 0 THEN x
           ELSE IF draw = "drop" \/ (draw = "alternate" /\ k % 2 = 0)
                THEN <<"dropped">>
                ELSE <<"kept", x, p>>]

\* Line 237: attention_scores @ value.
WeightedData(h, probs, value) ==
    LET shape == MatMulShape(probs, value)
    IN [k \in 1..Prod(shape) |->
          LET idx == Unravel(k - 1, shape)
          IN <<"dot", RowOf(h, probs, idx), ColOf(h, value, idx)>>]

\* MultiHeadAttentionBlock.attention(query, key, value, dropout) is called
\* from a cell with tensors of shape (batch, h, seq_len_q, d_k) and
\* (batch, h, seq_len_k, d_k).  It is a static method that reads no module,
\* so it is called here while no module is held.  heap0 records the storages
\* as they are when the call starts.
Att_Call(batch, h, sq, sk, d_k, dropout) ==
    /\ pc = "idle"
    /\ mha = NoObject
    /\ rc = NoObject
    /\ LET q == Alloc(heap, <<batch, h, sq, d_k>>, Iota(<<batch, h, sq, d_k>>, 1))
           k == Alloc(q.heap, <<batch, h, sk, d_k>>, Iota(<<batch, h, sk, d_k>>, 2))
           v == Alloc(k.heap, <<batch, h, sk, d_k>>, Iota(<<batch, h, sk, d_k>>, 3))
       IN /\ heap' = v.heap
          /\ frame' = [fn |-> "attention", query |-> q.t, key |-> k.t,
                       value |-> v.t, dropout |-> dropout, heap0 |-> v.heap,
                       steps |-> <<>>]
    /\ pc' = "att_225"
    /\ exc' = "none"
    /\ UNCHANGED <<globals, mha, rc>>

\* Line 225: d_k = query.shape[-1]
Att_225 ==
    /\ pc = "att_225"
    /\ frame' = frame @@ [d_k |-> frame.query.shape[Len(frame.query.shape)]]
    /\ pc' = "att_228"
    /\ UNCHANGED <<heap, globals, mha, rc, exc>>

\* Line 228: attention_scores = (query @ key.transpose(-2, -1)) / math.sqrt(d_k)
Att_228 ==
    /\ pc = "att_228"
    /\ LET a == Alloc(heap,
                      MatMulShape(frame.query, transpose(frame.key, 2, 3)),
                      ScoresData(heap, frame.query, frame.key, frame.d_k))
       IN /\ heap' = a.heap
          /\ frame' = [frame EXCEPT !.steps = Append(@, "scale")]
                         @@ [attention_scores |-> a.t]
    /\ pc' = "att_232"
    /\ UNCHANGED <<globals, mha, rc, exc>>

\* Line 232: if mask is not None.  attention has no parameter or local named
\* mask: the name is looked up in the globals, and raises NameError when no
\* cell has bound it.
Att_232 ==
    /\ pc = "att_232"
    /\ \/ /\ ~globals.mask.bound
          /\ Raise("NameError")
       \/ /\ globals.mask.bound
          /\ pc' = IF globals.mask.val # None THEN "att_233" ELSE "att_234"
          /\ UNCHANGED <<heap, globals, mha, rc, frame, exc>>

\* Line 233: attention_scores.masked_fill_(mask == 0, -1e9)
Att_233 ==
    /\ pc = "att_233"
    /\ \/ /\ ~BroadcastsTo(globals.mask.val.shape, frame.attention_scores.shape)
          /\ Raise("RuntimeError")
       \/ /\ BroadcastsTo(globals.mask.val.shape, frame.attention_scores.shape)
          /\ heap' = masked_fill_(heap, frame.attention_scores,
                                  globals.mask.val, MaskFillValue)
          /\ frame' = [frame EXCEPT !.steps = Append(@, "masked_fill")]
          /\ pc' = "att_234"
          /\ UNCHANGED <<globals, mha, rc, exc>>

\* Line 234: attention_scores = attention_scores.softmax(dim = -1)
Att_234 ==
    /\ pc = "att_234"
    /\ LET a == Alloc(heap, frame.attention_scores.shape,
                      SoftmaxData(heap, frame.attention_scores))
       IN /\ heap' = a.heap
          /\ frame' = [frame EXCEPT !.attention_scores = a.t,
                                    !.steps = Append(@, "softmax")]
    /\ pc' = "att_235"
    /\ UNCHANGED <<globals, mha, rc, exc>>

\* Lines 235-236: if dropout is not None:
\*                    attention_scores = dropout(attention_scores)
Att_235 ==
    /\ pc = "att_235"
    /\ \/ /\ frame.dropout = None
          /\ UNCHANGED <<heap, frame>>
       \/ /\ frame.dropout # None
          /\ \E draw \in DropoutDraws :
                LET a == Alloc(heap, frame.attention_scores.shape,
                               DropoutData(heap, frame.attention_scores,
                                           frame.dropout.p, draw))
                IN /\ heap' = a.heap
                   /\ frame' = [frame EXCEPT !.attention_scores = a.t,
                                             !.steps = Append(@, "dropout")]
    /\ pc' = "att_237"
    /\ UNCHANGED <<globals, mha, rc, exc>>

\* Line 237: return (attention_scores @ value), attention_scores
\* (key and value share seq_len_k, so the product is defined).
Att_237 ==
    /\ pc = "att_237"
    /\ LET a == Alloc(heap, MatMulShape(frame.attention_scores, frame.value),
                      WeightedData(heap, frame.attention_scores, frame.value))
       IN /\ heap' = a.heap
          /\ frame' = [frame EXCEPT !.steps = Append(@, "matmul")]
                         @@ [ret |-> <<a.t, frame.attention_scores>>]
    /\ pc' = "returned"
    /\ UNCHANGED <<globals, mha, rc, exc>>

Attention ==
    \/ \E batch \in 1..MaxBatch, h \in 1..MaxHeads, sq \in 1..MaxSeq,
          sk \in 1..MaxSeq, d_k \in 1..MaxDk,
          dropout \in {None} \cup {[cls |-> "Dropout", p |-> p] : p \in DropoutRates} :
            Att_Call(batch, h, sq, sk, d_k, dropout)
    \/ Att_225 \/ Att_228 \/ Att_232 \/ Att_233 \/ Att_234 \/ Att_235 \/ Att_237


\* ------------------------------------------ LayerNormalization (132-142)

\* Line 133: eps = 10**-6, held as its exponent of 10.
EpsExponent == -6

\* Further float expressions, over a vector of n integers <<"int", v[j]>>
\* with sum S and sum of squares Q:
\*   <<"mean", S, n>>                        S / n
\*   <<"std", n * Q - S * S, n>>             sqrt((Q - S*S/n) / (n - 1)), the
\*                                           sample standard deviation
\*   <<"layer_norm", a, n*x - S, n, n*Q - S*S, e, b>>
\*                                           a * (x - S/n) / (std + 10^e) + b
\*   <<"neg", x>>                            -x
\*   <<"add", x, y>>                         x + y

\* The integers of the last-axis vector that index idx of t lies in.
VectorOf(h, t, idx) ==
    [j \in 1..t.shape[Len(t.shape)] |-> At(h, t, WithLast(idx, j - 1))[2]]

\* The shape of a reduction over the last axis with keepdim = True.
KeepDimShape(shape) == [shape EXCEPT ![Len(shape)] = 1]

\* Line 140: x.mean(dim = -1, keepdim = True)
MeanData(h, x) ==
    LET shape == KeepDimShape(x.shape)
    IN [k \in 1..Prod(shape) |->
          LET v == VectorOf(h, x, Unravel(k - 1, shape))
          IN <<"mean", SumSeq(v), Len(v)>>]

\* Line 141: x.std(dim = -1, keepdim = True)
StdData(h, x) ==
    LET shape == KeepDimShape(x.shape)
    IN [k \in 1..Prod(shape) |->
          LET v == VectorOf(h, x, Unravel(k - 1, shape))
              S == SumSeq(v)
              Q == SumSeq([j \in 1..Len(v) |-> v[j] * v[j]])
          IN <<"std", Len(v) * Q - S * S, Len(v)>>]

\* Line 142: self.alpha * (x - mean) / (std + self.eps) + self.bias, mean and
\* std broadcast over the last axis, alpha and bias over every axis.
NormData(h, norm, x, mean, std) ==
    [k \in 1..Prod(x.shape) |->
        LET idx == Unravel(k - 1, x.shape)
            m == BroadcastAt(h, mean, idx)
            sd == BroadcastAt(h, std, idx)
        IN <<"layer_norm", At(h, norm.alpha, <<0>>),
             m[3] * At(h, x, idx)[2] - m[2], m[3], sd[2],
             norm.eps, At(h, norm.bias, <<0>>)>>]

\* --------------------------------------- ResidualConnection (286-292)

\* The sublayers a caller passes: the identity, which returns its argument,
\* and the negation, which returns a new tensor.
Sublayers == {"identity", "negate"}

SublayerApply(h, f, t) ==
    IF f = "identity" THEN [heap |-> h, t |-> t]
    ELSE Alloc(h, t.shape, [k \in 1..Prod(t.shape) |->
                              <<"neg", At(h, t, Unravel(k - 1, t.shape))>>])

\* Line 292 adding back the normalised tensor instead of x.
ResidualAddNormed(h, x, normed, y) ==
    Alloc(h, x.shape, [k \in 1..Prod(x.shape) |->
        LET idx == Unravel(k - 1, x.shape)
        IN <<"add", At(h, normed, idx), At(h, y, idx)>>])

\* Line 292: x + <y>, with y the output of the dropout: a new tensor.
ResidualAdd(h, x, normed, y) ==
    Alloc(h, x.shape, [k \in 1..Prod(x.shape) |->
        LET idx == Unravel(k - 1, x.shape)
        IN <<"add", At(h, x, idx), At(h, y, idx)>>])

\* ResidualConnection(dropout) is called from a cell.  Line 289:
\* self.dropout = nn.Dropout(dropout); line 290: self.norm =
\* LayerNormalization(), whose __init__ (lines 135-138) sets eps and
\* allocates alpha = ones(1) and bias = zeros(1).
RC_New(dropout) ==
    /\ pc = "idle"
    /\ mha = NoObject
    /\ rc = NoObject
    /\ LET a == Alloc(heap, <<1>>, <<1>>)
           b == Alloc(a.heap, <<1>>, <<0>>)
       IN /\ heap' = b.heap
          /\ rc' = [cls |-> "ResidualConnection",
                    dropout |-> [cls |-> "Dropout", p |-> dropout],
                    norm |-> [cls |-> "LayerNormalization", eps |-> EpsExponent,
                              alpha |-> a.t, bias |-> b.t]]
    /\ UNCHANGED <<pc, globals, mha, frame, exc>>

\* A cell drops its reference to the module.
RC_Del ==
    /\ pc = "idle"
    /\ rc # NoObject
    /\ rc' = NoObject
    /\ heap' = Collect(heap, globals, mha, NoObject)
    /\ UNCHANGED <<pc, globals, mha, frame, exc>>

\* The input tensors: the floats c, c + 1, ..., or every element c (no
\* variance along the normalised axis).
InputKinds == {"iota", "const"}

InputData(kind, shape, c) ==
    [k \in 1..Prod(shape) |-> <<"int", IF kind = "iota" THEN c + k - 1 ELSE c>>]

\* residual.forward(x, sublayer) is called from a cell with x of shape
\* (batch, seq_len, d_model).  calls records the arguments the sublayer has
\* been called with.
RC_Call(batch, seq_len, d_model, kind, c, sublayer) ==
    /\ pc = "idle"
    /\ rc # NoObject
    /\ LET x == Alloc(heap, <<batch, seq_len, d_model>>,
                      InputData(kind, <<batch, seq_len, d_model>>, c))
       IN /\ heap' = x.heap
          /\ frame' = [fn |-> "ResidualConnection.forward", self |-> rc,
                       x |-> x.t, sublayer |-> sublayer, heap0 |-> x.heap,
                       calls |-> <<>>]
    /\ pc' = "ln_140"
    /\ exc' = "none"
    /\ UNCHANGED <<globals, mha, rc>>

\* Line 292 calls self.norm(x) first.  Line 140:
\* mean = x.mean(dim = -1, keepdim = True)
LN_140 ==
    /\ pc = "ln_140"
    /\ LET a == Alloc(heap, KeepDimShape(frame.x.shape), MeanData(heap, frame.x))
       IN /\ heap' = a.heap
          /\ frame' = frame @@ [mean |-> a.t]
    /\ pc' = "ln_141"
    /\ UNCHANGED <<globals, mha, rc, exc>>

\* Line 141: std = x.std(dim = -1, keepdim = True)
LN_141 ==
    /\ pc = "ln_141"
    /\ LET a == Alloc(heap, KeepDimShape(frame.x.shape), StdData(heap, frame.x))
       IN /\ heap' = a.heap
          /\ frame' = frame @@ [std |-> a.t]
    /\ pc' = "ln_142"
    /\ UNCHANGED <<globals, mha, rc, exc>>

\* Line 142: return self.alpha * (x - mean) / (std + self.eps) + self.bias
LN_142 ==
    /\ pc = "ln_142"
    /\ LET a == Alloc(heap, frame.x.shape,
                      NormData(heap, frame.self.norm, frame.x, frame.mean, frame.std))
       IN /\ heap' = a.heap
          /\ frame' = frame @@ [normed |-> a.t]
    /\ pc' = "rc_sublayer"
    /\ UNCHANGED <<globals, mha, rc, exc>>

\* Line 292: sublayer(self.norm(x))
RC_Sublayer ==
    /\ pc = "rc_sublayer"
    /\ LET y == SublayerApply(heap, frame.sublayer, frame.normed)
       IN /\ heap' = y.heap
          /\ frame' = [frame EXCEPT !.calls = Append(@, Flat(heap, frame.normed))]
                         @@ [sub_out |-> y.t]
    /\ pc' = "rc_dropout"
    /\ UNCHANGED <<globals, mha, rc, exc>>

\* Line 292: self.dropout(...)
RC_Dropout ==
    /\ pc = "rc_dropout"
    /\ \E draw \in DropoutDraws :
          LET a == Alloc(heap, frame.sub_out.shape,
                         DropoutData(heap, frame.sub_out, frame.self.dropout.p, draw))
          IN /\ heap' = a.heap
             /\ frame' = frame @@ [draw |-> draw, dropped |-> a.t]
    /\ pc' = "rc_add"
    /\ UNCHANGED <<globals, mha, rc, exc>>

\* Line 292: return x + ...
RC_Add ==
    /\ pc = "rc_add"
    /\ LET a == ResidualAdd(heap, frame.x, frame.normed, frame.dropped)
       IN /\ heap' = a.heap
          /\ frame' = frame @@ [ret |-> a.t]
    /\ pc' = "returned"
    /\ UNCHANGED <<globals, mha, rc, exc>>

Residual ==
    \/ \E dropout \in DropoutRates : RC_New(dropout)
    \/ RC_Del
    \/ \E batch \in 1..MaxBatch, seq_len \in 1..MaxSeq, d_model \in 1..MaxDModel,
          kind \in InputKinds, c \in 0..MaxVal, sublayer \in Sublayers :
            RC_Call(batch, seq_len, d_model, kind, c, sublayer)
    \/ LN_140 \/ LN_141 \/ LN_142 \/ RC_Sublayer \/ RC_Dropout \/ RC_Add


\* ------------------------------- PositionalEncoding.__init__ (72-97)

\* Further float expressions:
\*   <<"pow10000", e, d>>      10000^(e/d), that is exp(e * log(10000) / d)
\*   <<"angle", pos, e, d>>    pos * 10000^(e/d); pos * 10000^0 is held as
\*                             <<"angle", pos, 0, 1>> and 0 * y as
\*                             <<"angle", 0, 0, 1>>
\*   <<"sin", a>>, <<"cos", a>>

\* position * factor for position <<"int", pos>> and factor
\* <<"pow10000", e, d>>.
Angle(pos, e, d) ==
    IF pos = 0 THEN <<"angle", 0, 0, 1>>
    ELSE IF e = 0 THEN <<"angle", pos, 0, 1>>
    ELSE <<"angle", pos, e, d>>

\* Line 87: torch.exp(torch.arange(0, d_model, 2).float()
\*                    * (math.log(10000.0) / d_model)):
\* element i (from 0) is exp(2i * log(10000) / d_model) = 10000^(2i/d_model).
DivTermData(d_model) ==
    [i \in 1..((d_model + 1) \div 2) |-> <<"pow10000", 2 * (i - 1), d_model>>]

\* Lines 90-91: pe[:, first::2] = fn(position * div_term), in place.  The
\* product has shape (seq_len, len(div_term)); column j of it goes to column
\* first + 2j of pe.
AssignColumns(h, pe, first, fn, position, div_term) ==
    [h EXCEPT ![pe.sid] =
        [k \in 1..Prod(pe.shape) |->
            LET idx == Unravel(k - 1, pe.shape)
                col == idx[2]
            IN IF col % 2 = first
               THEN <<fn, Angle(At(h, position, <<idx[1], 0>>)[2],
                                At(h, div_term, <<col \div 2>>)[2],
                                At(h, div_term, <<col \div 2>>)[3])>>
               ELSE h[pe.sid][k]]]

\* Whether a value with src columns can be assigned to a slice with dst
\* columns: the sizes are equal, or the value's is 1 and is broadcast.
AssignOk(src, dst) == src = dst \/ src = 1

\* PositionalEncoding(d_model, seq_len, dropout) is called from a cell with
\* non-negative sizes.  Lines 77-80: super().__init__(); self.d_model =
\* d_model; self.seq_len = seq_len; self.dropout = dropout (the rate itself,
\* not an nn.Dropout).
PE_New(d_model, seq_len, dropout) ==
    /\ pc = "idle"
    /\ mha = NoObject
    /\ rc = NoObject
    /\ frame' = [fn |-> "PositionalEncoding.__init__",
                 self |-> [cls |-> "PositionalEncoding", d_model |-> d_model,
                           seq_len |-> seq_len, dropout |-> dropout],
                 d_model |-> d_model, seq_len |-> seq_len, dropout |-> dropout]
    /\ pc' = "pe_83"
    /\ exc' = "none"
    /\ UNCHANGED <<heap, globals, mha, rc>>

\* Line 83: pe = torch.zeros(seq_len, d_model)
PE_83 ==
    /\ pc = "pe_83"
    /\ LET shape == <<frame.seq_len, frame.d_model>>
           a == Alloc(heap, shape, [k \in 1..Prod(shape) |-> <<"const", 0>>])
       IN /\ heap' = a.heap
          /\ frame' = frame @@ [pe |-> a.t]
    /\ pc' = "pe_86"
    /\ UNCHANGED <<globals, mha, rc, exc>>

\* Line 86: position = torch.arange(0, seq_len, dtype = torch.float).unsqueeze(1)
PE_86 ==
    /\ pc = "pe_86"
    /\ LET a == Alloc(heap, <<frame.seq_len, 1>>,
                      [k \in 1..frame.seq_len |-> <<"int", k - 1>>])
       IN /\ heap' = a.heap
          /\ frame' = frame @@ [position |-> a.t]
    /\ pc' = "pe_87"
    /\ UNCHANGED <<globals, mha, rc, exc>>

\* Line 87: div_term = torch.exp(torch.arange(0, d_model, 2).float()
\*                               * (math.log(10000.0) / d_model))
\* math.log(10000.0) / 0 raises ZeroDivisionError.
PE_87 ==
    /\ pc = "pe_87"
    /\ \/ /\ frame.d_model = 0
          /\ Raise("ZeroDivisionError")
       \/ /\ frame.d_model # 0
          /\ LET a == Alloc(heap, <<(frame.d_model + 1) \div 2>>,
                            DivTermData(frame.d_model))
             IN /\ heap' = a.heap
                /\ frame' = frame @@ [div_term |-> a.t]
          /\ pc' = "pe_90"
          /\ UNCHANGED <<globals, mha, rc, exc>>

\* Line 90: pe[:, 0::2] = torch.sin(position * div_term)
\* pe has as many even columns as div_term has elements.
PE_90 ==
    /\ pc = "pe_90"
    /\ heap' = AssignColumns(heap, frame.pe, 0, "sin", frame.position, frame.div_term)
    /\ pc' = "pe_91"
    /\ UNCHANGED <<globals, mha, rc, frame, exc>>

\* Line 91: pe[:, 1::2] = torch.cos(position * div_term)
\* pe has d_model // 2 odd columns: one fewer than div_term has elements when
\* d_model is odd, and the assignment raises RuntimeError unless the value
\* broadcasts.
PE_91 ==
    /\ pc = "pe_91"
    /\ \/ /\ ~AssignOk(frame.div_term.shape[1], frame.d_model \div 2)
          /\ Raise("RuntimeError")
       \/ /\ AssignOk(frame.div_term.shape[1], frame.d_model \div 2)
          /\ heap' = AssignColumns(heap, frame.pe, 1, "cos",
                                   frame.position, frame.div_term)
          /\ pc' = "pe_94"
          /\ UNCHANGED <<globals, mha, rc, frame, exc>>

\* Line 94: pe = pe.unsqueece(0).  A tensor has no attribute unsqueece:
\* AttributeError, so line 97 never registers the table and no
\* PositionalEncoding is ever constructed.
PE_94 ==
    /\ pc = "pe_94"
    /\ Raise("AttributeError")

Positional ==
    \/ \E d_model \in 0..MaxDModel, seq_len \in 0..MaxSeq, dropout \in DropoutRates :
          PE_New(d_model, seq_len, dropout)
    \/ PE_83 \/ PE_86 \/ PE_87 \/ PE_90 \/ PE_91 \/ PE_94


\* ------------------------------------------------------- specification

\* The global namespace of the kernel.  The notebook's cells bind only the
\* classes; mask (read at line 232) and d_k (read at line 249) are bound only
\* if another cell binds them: mask to None or to a 0/1 tensor, d_k to an
\* integer.  A bound mask tensor lives on the heap from the start.
Unbound == [bound |-> FALSE]

Bound(v) == [bound |-> TRUE, val |-> v]

GlobalEnvs ==
    {[globals |-> [mask |-> Unbound, d_k |-> Unbound], heap |-> <<>>],
     [globals |-> [mask |-> Unbound, d_k |-> Bound(1)], heap |-> <<>>],
     [globals |-> [mask |-> Bound(None), d_k |-> Unbound], heap |-> <<>>]}
    \cup {LET m == Alloc(<<>>, <<n, n>>, CausalMask(n, n))
          IN [globals |-> [mask |-> Bound(m.t), d_k |-> Unbound], heap |-> m.heap]
          : n \in {MaxSeq}}

Init ==
    /\ pc = "idle"
    /\ \E e \in GlobalEnvs :
          /\ globals = e.globals
          /\ heap = e.heap
    /\ mha = NoObject
    /\ rc = NoObject
    /\ frame = NoFrame
    /\ exc = "none"

Next ==
    \/ MHA_Init
    \/ Heads
    \/ Forward
    \/ Attention
    \/ Residual
    \/ Positional
    \/ Unwind
    \/ ReturnToCell

Spec == Init /\ [][Next]_vars

\* ------------------------------------------------------------- claims

InHeadsDone == pc = "returned" /\ frame.fn = "heads"

InInit == frame.fn = "MultiHeadAttentionBlock.__init__"

InForward == frame.fn = "MultiHeadAttentionBlock.forward"

InAttention == frame.fn = "attention"

\* The call in progress has ended, by returning or by raising.
Ended == pc \in {"returned", "raised"}

\* C6: constructing the block with positive d_model and h where
\* d_model % h # 0 fails with the assertion of line 212 before d_k or any
\* projection exists, and no module whose d_model is not divisible by its h
\* is ever held or passed to forward.
C6_NonDivisibleFailsAtConstruction ==
    /\ mha # NoObject => PyMod(mha.d_model, mha.h) = 0
    /\ InForward => PyMod(frame.self.d_model, frame.self.h) = 0
    /\ (/\ InInit
        /\ frame.d_model > 0
        /\ frame.h > 0
        /\ PyMod(frame.d_model, frame.h) # 0) =>
          /\ pc \in {"mha_210", "mha_211", "mha_212", "raised"}
          /\ pc = "raised" => exc = "AssertionError"
          /\ (DOMAIN frame.self) \cap ({"d_k"} \cup Linears) = {}
          /\ DOMAIN heap = (DOMAIN heap) \cap Roots(globals, mha, rc)

C6_Witness ==
    /\ InInit
    /\ pc = "raised"
    /\ exc = "AssertionError"
    /\ frame.d_model > 0
    /\ frame.h > 0
    /\ PyMod(frame.d_model, frame.h) # 0
    /\ mha = NoObject

\* C7: constructing the block with h = 0, h < 0 or d_model <= 0 fails, so no
\* module with a non-positive h, d_model or d_k is ever produced.
C7_InvalidConfigurationRejected ==
    mha # NoObject => mha.h > 0 /\ mha.d_model > 0 /\ mha.d_k > 0

\* The flat position (from 1) of index idx in a row-major tensor of this shape.
Ravel(idx, shape) ==
    SumSeq([i \in 1..Len(idx) |-> idx[i] * ContigStrides(shape)[i]]) + 1

\* The tensor frame[local] is the head split of self.w(input): it has shape
\* (batch, h, seq_len, d_k) and its element [b, hd, s, c] is element
\* [b, s, hd * d_k + c] of the projection.
IsHeadSplitOf(local, w, input) ==
    LET x == frame[input]
        self == frame.self
        y == LinearData(heap, self[w], x)
    IN /\ frame[local].shape = <<x.shape[1], self.h, x.shape[2], self.d_k>>
       /\ \A idx \in Indices(frame[local].shape) :
             At(heap, frame[local], idx) =
                y[Ravel(<<idx[1], idx[3], idx[2] * self.d_k + idx[4]>>, x.shape)]

\* C2: when forward has ended, each of query, key and value is the head
\* split of its own projection: w_q(q), w_k(k), w_v(v).
C2_HeadsFromOwnProjection ==
    (InForward /\ Ended) =>
        /\ IsHeadSplitOf("query", "w_q", "q")
        /\ IsHeadSplitOf("key", "w_k", "k")
        /\ IsHeadSplitOf("value", "w_v", "v")

\* C3: a forward call with a mask that is not None ends having run, in this
\* order, the scaling of the scores, the masked fill with that mask, the
\* softmax, the dropout and the product with value.
C3_MaskAppliedBeforeSoftmax ==
    (InForward /\ Ended /\ frame.mask # None) =>
        /\ pc = "returned"
        /\ "steps" \in DOMAIN frame
        /\ frame.steps = <<"scale", "masked_fill", "softmax", "dropout", "matmul">>

\* C4: forward(q, k, v, mask) with q of shape (batch, seq_len_q, d_model) and
\* k, v of shape (batch, seq_len_k, d_model) returns a tensor of shape
\* (batch, seq_len_q, d_model).
C4_OutputShape ==
    (InForward /\ Ended) =>
        /\ pc = "returned"
        /\ frame.ret.shape = frame.q.shape

FillReached ==
    /\ InAttention
    /\ pc = "att_234"
    /\ \E k \in DOMAIN heap[frame.attention_scores.sid] :
          heap[frame.attention_scores.sid][k] = <<"const", MaskFillValue>>

InResidual == frame.fn = "ResidualConnection.forward"

\* The layer normalisation of a vector v of integers at position j, with
\* alpha = 1, bias = 0 and eps = 10^-6: (v[j] - mean(v)) / (std(v) + eps).
ExpectedLayerNorm(v, j) ==
    LET n == Len(v)
        S == SumSeq(v)
        Q == SumSeq([i \in 1..n |-> v[i] * v[i]])
    IN <<"layer_norm", 1, n * v[j] - S, n, n * Q - S * S, -6, 0>>

\* What the sublayer f makes of element e, and the dropout of rate p under
\* this draw of element e at flat position k.
ExpectedSublayer(f, e) == IF f = "identity" THEN e ELSE <<"neg", e>>

ExpectedDropout(p, draw, k, e) ==
    IF p = 0 THEN e
    ELSE IF draw = "drop" \/ (draw = "alternate" /\ k % 2 = 0) THEN <<"dropped">>
         ELSE <<"kept", e, p>>

\* C5: ResidualConnection.forward(x, sublayer) returns
\* x + dropout(sublayer(layernorm(x))): the sublayer is called exactly once,
\* on the layer normalisation of x, and the x that is added back is the
\* un-normalised input; with rate 0 and the identity this is x + layernorm(x).
C5_ResidualPreNorm ==
    (InResidual /\ pc = "returned") =>
        LET x == frame.heap0[frame.x.sid]
            d == frame.x.shape[3]
            row(k) == [j \in 1..d |-> x[((k - 1) \div d) * d + j][2]]
            ln == [k \in 1..Len(x) |-> ExpectedLayerNorm(row(k), ((k - 1) % d) + 1)]
        IN /\ frame.ret.shape = frame.x.shape
           /\ Flat(heap, frame.ret) =
                [k \in 1..Len(x) |->
                   <<"add", x[k],
                     ExpectedDropout(frame.self.dropout.p, frame.draw, k,
                                     ExpectedSublayer(frame.sublayer, ln[k]))>>]
           /\ frame.calls = <<ln>>
           /\ Flat(heap, frame.x) = x
           /\ (frame.self.dropout.p = 0 /\ frame.sublayer = "identity") =>
                 Flat(heap, frame.ret) = [k \in 1..Len(x) |-> <<"add", x[k], ln[k]>>]

C5_Witness ==
    /\ InResidual
    /\ pc = "returned"
    /\ frame.self.dropout.p = 0
    /\ frame.sublayer = "identity"
    /\ frame.x.shape[3] > 1
    /\ frame.x.shape[2] > 1
    /\ \E k \in 1..Prod(frame.x.shape) :
          /\ frame.heap0[frame.x.sid][k][2] > 0
          /\ At(heap, frame.normed, Unravel(k - 1, frame.x.shape))[3] # 0

InPositional == frame.fn = "PositionalEncoding.__init__"

\* C9: once lines 90-91 have filled the table, for every position pos and
\* pair index i with 0 <= i < d_model/2, table[pos, 2i] is the sine and
\* table[pos, 2i+1] the cosine of pos / 10000^(2i/d_model), that is of
\* pos * 10000^(-2i/d_model); so along a row the exponent of 10000 in the
\* angle does not grow with i.
C9_TableFormula ==
    (InPositional /\ pc = "pe_94" /\ frame.d_model % 2 = 0) =>
        \A pos \in 0..(frame.seq_len - 1), i \in 0..((frame.d_model \div 2) - 1) :
            /\ At(heap, frame.pe, <<pos, 2 * i>>) =
                  <<"sin", Angle(pos, -(2 * i), frame.d_model)>>
            /\ At(heap, frame.pe, <<pos, 2 * i + 1>>) =
                  <<"cos", Angle(pos, -(2 * i), frame.d_model)>>
            /\ \A j \in 0..i :
                  At(heap, frame.pe, <<pos, 2 * i>>)[2][3] <=
                      At(heap, frame.pe, <<pos, 2 * j>>)[2][3]

====
